---- MODULE Spec2Model ----
(***************************************************************************)
(* The casino rules engine of src/casino.py (class Game) as a state        *)
(* machine: the deal, the move generator, the move applier, the turn       *)
(* sequencer and the end-of-game sweep.                                    *)
(*                                                                         *)
(* Lists are TLA+ sequences (1-based); every index carried by an Action    *)
(* or stored in the game (active_player, last_capturer, steal_from) is     *)
(* 0-based as in the source, and is converted where a list is accessed.    *)
(* The deck is scaled down: values 1..MaxValue and deals of HandSize2 /    *)
(* HandSize3 cards instead of 1..10 and 10 / 13.                           *)
(***************************************************************************)
EXTENDS Integers, Sequences, FiniteSets, TLC

\* ------------------------------------------------------------------ bounds
\* Highest card value of the scaled deck (source: range(1, 11)).
MaxValue == 3
\* Cards dealt to each hand of a 2-player game, per deal (source: 10).
HandSize2 == 2
\* Cards dealt to each hand of a 3-player game (source: 13).
HandSize3 == 2
\* Number of shuffles the initial states are drawn from.
NumSeeds == 6
\* Distance between two explored seeds of the random source.
SeedStride == 997
\* Number of collect_remaining_table calls followed on a finished game.
MaxSweeps == 2
\* Number of shuffles the deal alone is examined on (with SeedStride prime to
\* 7!, these are all the shuffles of the 3-player deck of 7 cards).
NumDealSeeds == 5040

\* --------------------------------------------------------------- constants
SUITS == <<"S", "H", "D", "C">>

\* Optional[int] = None (last_capturer); never a valid player index.
None == -1

Card(value, suit) == [value |-> value, suit |-> suit]

Build(cards, total) == [cards |-> cards, total |-> total]

Player(hand, captured) == [hand |-> hand, captured |-> captured]

\* The Action variants as legal_moves constructs them; the fields a variant
\* leaves at their default (None) are omitted from the record.
\* (mutant) the hand index counted from 1
ThrowOneBased(hand_index) == [kind |-> "throw", hand_index |-> hand_index + 1]

Throw(hand_index) == [kind |-> "throw", hand_index |-> hand_index]

Capture(hand_index, table_index) ==
    [kind |-> "capture", hand_index |-> hand_index, table_index |-> table_index]

CaptureBuild(hand_index, build_index) ==
    [kind |-> "capture_build", hand_index |-> hand_index, build_index |-> build_index]

BuildAction(hand_index, table_index, target_total) ==
    [kind |-> "build", hand_index |-> hand_index, table_index |-> table_index,
     target_total |-> target_total]

StealBuild(table_index, target_total, steal_from) ==
    [kind |-> "steal_build", table_index |-> table_index,
     target_total |-> target_total, steal_from |-> steal_from]

\* ------------------------------------------------------------ Python lists
Min(a, b) == IF a < b THEN a ELSE b

\* list[:n]
Take(list, n) == SubSeq(list, 1, Min(n, Len(list)))

\* the list after del list[:n]
Drop(list, n) == SubSeq(list, Min(n, Len(list)) + 1, Len(list))

\* Python index normalisation of list.pop(i) / list[i]: a negative index
\* counts from the end.
PyIndex(list, i) == IF i < 0 THEN i + Len(list) ELSE i

\* list.pop(i) / list[i] raises IndexError unless this holds.
InRange(list, i) == PyIndex(list, i) >= 0 /\ PyIndex(list, i) < Len(list)

\* the element list.pop(i) returns
PopItem(list, i) == list[PyIndex(list, i) + 1]

\* the list list.pop(i) leaves
PopRest(list, i) ==
    SubSeq(list, 1, PyIndex(list, i)) \o SubSeq(list, PyIndex(list, i) + 2, Len(list))

\* the elements of a list, as a set
Elems(list) == {list[i] : i \in 1..Len(list)}

\* concatenation of parts[lo], ..., parts[hi] (parts: a function on lo..hi)
RECURSIVE ConcatRange(_, _, _)
ConcatRange(parts, lo, hi) ==
    IF lo > hi THEN <<>> ELSE parts[lo] \o ConcatRange(parts, lo + 1, hi)

\* ---------------------------------------------------------------- the deck
\* deck = [Card(value, suit) for suit in SUITS for value in range(1, MaxValue + 1)]
FullDeck ==
    [i \in 1..(Len(SUITS) * MaxValue) |->
        Card(((i - 1) % MaxValue) + 1, SUITS[((i - 1) \div MaxValue) + 1])]

\* Cards a deal of player_count players uses: two hands and a stock of two
\* more hands (2 players), or three hands and the table starter (3 players).
\* With the source's sizes both are the whole 40-card deck.
DeckSize(player_count) ==
    IF player_count = 2 THEN 4 * HandSize2 ELSE 3 * HandSize3 + 1

Deck(player_count) == Take(FullDeck, DeckSize(player_count))

RECURSIVE Factorial(_)
Factorial(n) == IF n <= 1 THEN 1 ELSE n * Factorial(n - 1)

\* The random source: the draw below n made for the seed. The draws of the
\* seeds 0..n!-1 are the digits of the seed in the factorial number system,
\* so that every permutation is the shuffle of exactly one seed.
RandBelow(seed, n) == (seed \div Factorial(n - 1)) % n

\* x[i], x[j] = x[j], x[i] (0-based i, j)
Swap(x, i, j) == [x EXCEPT ![i + 1] = x[j + 1], ![j + 1] = x[i + 1]]

\* random.shuffle: for i in reversed(range(1, len(x))): j = randbelow(i + 1);
\* swap x[i], x[j]
RECURSIVE ShuffleFrom(_, _, _)
ShuffleFrom(x, i, seed) ==
    IF i < 1 THEN x
    ELSE ShuffleFrom(Swap(x, i, RandBelow(seed, i + 1)), i - 1, seed)

Shuffle(x, seed) == ShuffleFrom(x, Len(x) - 1, seed)

Seeds(player_count) ==
    {(k * SeedStride) % Factorial(DeckSize(player_count)) : k \in 0..(NumSeeds - 1)}

DealSeeds(player_count) ==
    {(k * SeedStride) % Factorial(DeckSize(player_count)) : k \in 0..(NumDealSeeds - 1)}

\* ---------------------------------------------------------------- the deal
IsThreeOfHearts(card) == card.value = 3 /\ card.suit = "H"

\* index (0-based) of the first player holding the 3 of hearts, or None
FirstHolder(players, player_count) ==
    IF \E p \in 0..(player_count - 1) : \E c \in Elems(players[p].hand) : IsThreeOfHearts(c)
    THEN CHOOSE p \in 0..(player_count - 1) :
            /\ \E c \in Elems(players[p].hand) : IsThreeOfHearts(c)
            /\ \A q \in 0..(p - 1) : \A c \in Elems(players[q].hand) : ~IsThreeOfHearts(c)
    ELSE None

\* hand.remove(card): the list without the first element equal to card
Remove(list, card) ==
    LET i == CHOOSE k \in 1..Len(list) :
                 list[k] = card /\ \A m \in 1..(k - 1) : list[m] # card
    IN  SubSeq(list, 1, i - 1) \o SubSeq(list, i + 1, Len(list))

\* (mutant) player.hand.append(starter) is missing
ExchangeWithoutStarter(players, table, player_count) ==
    LET holder == FirstHolder(players, player_count) IN
    IF table = <<>> \/ holder = None
    THEN [players |-> players, table |-> table]
    ELSE [players |-> [players EXCEPT ![holder].hand = Remove(@, Card(3, "H"))],
          table   |-> [table EXCEPT ![1] = Card(3, "H")]]

\* Game._resolve_three_of_hearts_exchange on (players, table)
ResolveThreeOfHeartsExchange(players, table, player_count) ==
    LET holder == FirstHolder(players, player_count) IN
    IF table = <<>> \/ holder = None
    THEN [players |-> players, table |-> table]
    ELSE LET starter == table[1]
             card    == Card(3, "H")
         IN  [players |-> [players EXCEPT ![holder].hand =
                              Append(Remove(players[holder].hand, card), starter)],
              table   |-> [table EXCEPT ![1] = card]]

\* Game.__init__ + Game._setup on a shuffled deck
Setup(player_count, deck) ==
    IF player_count = 2
    THEN [players |-> [p \in 0..1 |->
                          Player(Take(Drop(deck, p * HandSize2), HandSize2), <<>>)],
          table   |-> <<>>,
          stock   |-> Drop(deck, 2 * HandSize2)]
    ELSE LET dealt == [p \in 0..2 |->
                          Player(Take(Drop(deck, p * HandSize3), HandSize3), <<>>)]
             rest  == Drop(deck, 3 * HandSize3)
             starter == rest[Len(rest)]
             ex    == ResolveThreeOfHeartsExchange(dealt, <<starter>>, 3)
         IN  [players |-> ex.players, table |-> ex.table, stock |-> <<>>]

\* ---------------------------------------------------------------- the state
VARIABLES
    player_count,    \* Game.player_count: 2 or 3
    players,         \* Game.players: 0..player_count-1 -> [hand, captured]
    table,           \* Game.table: the loose cards
    builds,          \* Game.builds: list of [cards, total]
    stock,           \* Game.stock
    last_capturer,   \* Game.last_capturer: a player index or None
    active_player,   \* Game.active_player
    last_call,       \* history: the engine call the last step made, and the
                     \* Game as it was before that call
    deals,           \* history: number of second deals made so far
    steal_run,       \* history: the last two steal_build calls, if no other
                     \* apply_action came after them: [steal_from, pile]
    sweeps,          \* history: number of collect_remaining_table calls
    rng,             \* Game.rng: the seed of the random source that shuffled
    scores           \* the list the last score() call returned, <<>> before

vars == <<player_count, players, table, builds, stock, last_capturer,
          active_player, last_call, deals, steal_run, sweeps, rng, scores>>

\* the Game object ("self") of the current state
Game ==
    [player_count |-> player_count, players |-> players, table |-> table,
     builds |-> builds, stock |-> stock, last_capturer |-> last_capturer,
     active_player |-> active_player]

PlayerIndices(g) == 0..(g.player_count - 1)

\* ------------------------------------------------------- the move generator
\* (mutant) any(hand_card != card for hand_card in hand): the value is not compared
AnotherCardExists(hand, card, target_total) ==
    \E k \in 1..Len(hand) : hand[k] # card

\* any(hand_card.value == target_total for hand_card in hand if hand_card != card)
AnotherCardMatches(hand, card, target_total) ==
    \E k \in 1..Len(hand) : hand[k] # card /\ hand[k].value = target_total

\* (mutant) all(...) in place of any(...)
AllCardsMatch(hand, target_total) ==
    \A k \in 1..Len(hand) : hand[k].value = target_total

\* any(hand_card.value == target_total for hand_card in hand)
AnyCardMatches(hand, target_total) ==
    \E k \in 1..Len(hand) : hand[k].value = target_total

\* the actions legal_moves appends for the hand card at idx (0-based)
HandMoves(g, player_index, idx) ==
    LET hand == g.players[player_index].hand
        card == hand[idx + 1]
        captures ==
            SelectSeq([t \in 1..Len(g.table) |-> Capture(idx, t - 1)],
                      LAMBDA a : card.value = g.table[a.table_index + 1].value)
        build_captures ==
            SelectSeq([b \in 1..Len(g.builds) |-> CaptureBuild(idx, b - 1)],
                      LAMBDA a : card.value = g.builds[a.build_index + 1].total)
        new_builds ==
            SelectSeq([t \in 1..Len(g.table) |->
                          BuildAction(idx, t - 1, card.value + g.table[t].value)],
                      LAMBDA a : AnotherCardMatches(hand, card, a.target_total))
    IN  <<Throw(idx)>> \o captures \o build_captures \o new_builds

\* (mutant) the player's own pile is not skipped
StealMovesFromAnyPile(g, player_index, opponent_index) ==
    LET hand     == g.players[player_index].hand
        captured == g.players[opponent_index].captured
    IN  IF captured = <<>>
        THEN <<>>
        ELSE LET top_card == captured[Len(captured)]
             IN  SelectSeq([t \in 1..Len(g.table) |->
                               StealBuild(t - 1, top_card.value + g.table[t].value,
                                          opponent_index)],
                           LAMBDA a : AnyCardMatches(hand, a.target_total))

\* the actions legal_moves appends for the opponent at opponent_index
StealMoves(g, player_index, opponent_index) ==
    LET hand     == g.players[player_index].hand
        captured == g.players[opponent_index].captured
    IN  IF opponent_index = player_index \/ captured = <<>>
        THEN <<>>
        ELSE LET top_card == captured[Len(captured)]
             IN  SelectSeq([t \in 1..Len(g.table) |->
                               StealBuild(t - 1, top_card.value + g.table[t].value,
                                          opponent_index)],
                           LAMBDA a : AnyCardMatches(hand, a.target_total))

\* Game.legal_moves
legal_moves(g, player_index) ==
    LET hand == g.players[player_index].hand IN
    ConcatRange([idx \in 0..(Len(hand) - 1) |-> HandMoves(g, player_index, idx)],
                0, Len(hand) - 1)
    \o ConcatRange([o \in PlayerIndices(g) |-> StealMoves(g, player_index, o)],
                   0, g.player_count - 1)

\* --------------------------------------------------------- the move applier
\* outcome of a call: the game as the call leaves it, and the exception raised
Returned(g) == [game |-> g, raised |-> "none"]

Raised(g, exception) == [game |-> g, raised |-> exception]

\* g after player.hand.pop(hand_index)
PopHand(g, player_index, hand_index) ==
    [g EXCEPT !.players[player_index].hand = PopRest(@, hand_index)]

\* g after player.captured.extend(cards)
ExtendCaptured(g, player_index, cards) ==
    [g EXCEPT !.players[player_index].captured = @ \o cards]

ApplyThrow(g, player_index, action) ==
    LET hand == g.players[player_index].hand IN
    IF ~InRange(hand, action.hand_index) THEN Raised(g, "IndexError")
    ELSE LET card == PopItem(hand, action.hand_index)
             g1   == PopHand(g, player_index, action.hand_index)
         IN  Returned([g1 EXCEPT !.table = Append(@, card)])

\* (mutant) the table card is put on the pile before the hand card
ApplyCaptureTableCardFirst(g, player_index, action) ==
    LET hand == g.players[player_index].hand
        card == PopItem(hand, action.hand_index)
        g1   == PopHand(g, player_index, action.hand_index)
        table_card == PopItem(g1.table, action.table_index)
        g2   == [g1 EXCEPT !.table = PopRest(@, action.table_index)]
        g3   == ExtendCaptured(g2, player_index, <<table_card, card>>)
    IN  Returned([g3 EXCEPT !.last_capturer = player_index])

ApplyCapture(g, player_index, action) ==
    LET hand == g.players[player_index].hand IN
    IF ~InRange(hand, action.hand_index) THEN Raised(g, "IndexError")
    ELSE LET card == PopItem(hand, action.hand_index)
             g1   == PopHand(g, player_index, action.hand_index)
         IN  IF ~InRange(g1.table, action.table_index) THEN Raised(g1, "IndexError")
             ELSE LET table_card == PopItem(g1.table, action.table_index)
                      g2 == [g1 EXCEPT !.table = PopRest(@, action.table_index)]
                      g3 == ExtendCaptured(g2, player_index, <<card, table_card>>)
                  IN  Returned([g3 EXCEPT !.last_capturer = player_index])

\* (mutant) self.last_capturer = player_index is missing
ApplyCaptureBuildKeepsCapturer(g, player_index, action) ==
    LET hand == g.players[player_index].hand IN
    IF ~InRange(hand, action.hand_index) THEN Raised(g, "IndexError")
    ELSE LET card == PopItem(hand, action.hand_index)
             g1   == PopHand(g, player_index, action.hand_index)
         IN  IF ~InRange(g1.builds, action.build_index) THEN Raised(g1, "IndexError")
             ELSE LET build == PopItem(g1.builds, action.build_index)
                      g2 == [g1 EXCEPT !.builds = PopRest(@, action.build_index)]
                      g3 == ExtendCaptured(g2, player_index, <<card>>)
                  IN  Returned(ExtendCaptured(g3, player_index, build.cards))

\* (mutant) only the first card of the build is taken, the rest stays a build
ApplyCaptureBuildSplitsBuild(g, player_index, action) ==
    LET hand == g.players[player_index].hand IN
    IF ~InRange(hand, action.hand_index) THEN Raised(g, "IndexError")
    ELSE LET card == PopItem(hand, action.hand_index)
             g1   == PopHand(g, player_index, action.hand_index)
         IN  IF ~InRange(g1.builds, action.build_index) THEN Raised(g1, "IndexError")
             ELSE LET i     == PyIndex(g1.builds, action.build_index)
                      build == PopItem(g1.builds, action.build_index)
                      g2 == [g1 EXCEPT !.builds[i + 1].cards = Tail(@)]
                      g3 == ExtendCaptured(g2, player_index, <<card, Head(build.cards)>>)
                  IN  Returned([g3 EXCEPT !.last_capturer = player_index])

ApplyCaptureBuild(g, player_index, action) ==
    LET hand == g.players[player_index].hand IN
    IF ~InRange(hand, action.hand_index) THEN Raised(g, "IndexError")
    ELSE LET card == PopItem(hand, action.hand_index)
             g1   == PopHand(g, player_index, action.hand_index)
         IN  IF ~InRange(g1.builds, action.build_index) THEN Raised(g1, "IndexError")
             ELSE LET build == PopItem(g1.builds, action.build_index)
                      g2 == [g1 EXCEPT !.builds = PopRest(@, action.build_index)]
                      g3 == ExtendCaptured(g2, player_index, <<card>>)
                      g4 == ExtendCaptured(g3, player_index, build.cards)
                  IN  Returned([g4 EXCEPT !.last_capturer = player_index])

ApplyBuild(g, player_index, action) ==
    LET hand == g.players[player_index].hand IN
    IF ~InRange(hand, action.hand_index) THEN Raised(g, "IndexError")
    ELSE LET card == PopItem(hand, action.hand_index)
             g1   == PopHand(g, player_index, action.hand_index)
         IN  IF ~InRange(g1.table, action.table_index) THEN Raised(g1, "IndexError")
             ELSE LET table_card == PopItem(g1.table, action.table_index)
                      g2 == [g1 EXCEPT !.table = PopRest(@, action.table_index)]
                  IN  Returned([g2 EXCEPT !.builds =
                          Append(@, Build(<<card, table_card>>, action.target_total))])

\* (mutant) the stolen card is read but stays on the opponent's pile
ApplyStealBuildKeepsCard(g, player_index, action) ==
    LET captured   == g.players[action.steal_from].captured
        stolen     == captured[Len(captured)]
        table_card == PopItem(g.table, action.table_index)
        g2 == [g EXCEPT !.table = PopRest(@, action.table_index)]
    IN  Returned([g2 EXCEPT !.builds =
            Append(@, Build(<<stolen, table_card>>, action.target_total))])

\* (mutant) the oldest card of the pile is stolen: captured.pop(0)
ApplyStealBuildOldest(g, player_index, action) ==
    LET captured   == g.players[action.steal_from].captured
        stolen     == captured[1]
        g1 == [g EXCEPT !.players[action.steal_from].captured = Tail(@)]
        table_card == PopItem(g1.table, action.table_index)
        g2 == [g1 EXCEPT !.table = PopRest(@, action.table_index)]
    IN  Returned([g2 EXCEPT !.builds =
            Append(@, Build(<<stolen, table_card>>, action.target_total))])

ApplyStealBuild(g, player_index, action) ==
    \* self.players[action.steal_from]: list indexing, a negative index wraps
    LET n    == g.player_count
        from == IF action.steal_from < 0 THEN action.steal_from + n
                ELSE action.steal_from
    IN
    IF from < 0 \/ from >= n THEN Raised(g, "IndexError")
    ELSE LET captured == g.players[from].captured IN
         IF captured = <<>> THEN Raised(g, "IndexError")
         ELSE LET stolen == captured[Len(captured)]
                  g1 == [g EXCEPT !.players[from].captured =
                                     SubSeq(@, 1, Len(@) - 1)]
              IN  IF ~InRange(g1.table, action.table_index)
                  THEN Raised(g1, "IndexError")
                  ELSE LET table_card == PopItem(g1.table, action.table_index)
                           g2 == [g1 EXCEPT !.table = PopRest(@, action.table_index)]
                       IN  Returned([g2 EXCEPT !.builds =
                               Append(@, Build(<<stolen, table_card>>,
                                               action.target_total))])

\* Game.apply_action
apply_action(g, player_index, action) ==
    CASE action.kind = "throw"         -> ApplyThrow(g, player_index, action)
      [] action.kind = "capture"       -> ApplyCapture(g, player_index, action)
      [] action.kind = "capture_build" -> ApplyCaptureBuild(g, player_index, action)
      [] action.kind = "build"         -> ApplyBuild(g, player_index, action)
      [] action.kind = "steal_build"   -> ApplyStealBuild(g, player_index, action)
      [] OTHER                         -> Raised(g, "ValueError")

\* --------------------------------------------------------- the turn sequencer
\* the loop body of _deal_second_round for the players from player_index on
RECURSIVE DealFrom(_, _)
DealFrom(g, player_index) ==
    IF player_index >= g.player_count THEN g
    ELSE DealFrom([g EXCEPT !.players[player_index].hand = @ \o Take(g.stock, HandSize2),
                            !.stock = Drop(@, HandSize2)],
                  player_index + 1)

\* (mutant) the check that every hand is empty is missing
DealWithoutHandCheck(g) ==
    IF g.player_count # 2 \/ g.stock = <<>> THEN g ELSE DealFrom(g, 0)

\* Game._deal_second_round
deal_second_round(g) ==
    IF g.player_count # 2 \/ g.stock = <<>> THEN g
    ELSE IF \E p \in PlayerIndices(g) : g.players[p].hand # <<>> THEN g
    ELSE DealFrom(g, 0)

\* (mutant) active_player is not advanced
AdvanceTurnStays(g) == deal_second_round(g)

\* (mutant) a player whose hand is empty is skipped
AdvanceTurnSkipsEmptyHand(g) ==
    LET next == (g.active_player + 1) % g.player_count IN
    deal_second_round(
        [g EXCEPT !.active_player =
            IF g.players[next].hand = <<>> THEN (next + 1) % g.player_count ELSE next])

\* Game.advance_turn
advance_turn(g) ==
    deal_second_round(
        [g EXCEPT !.active_player = (g.active_player + 1) % g.player_count])

\* ------------------------------------------------------------ the final sweep
\* the cards of all builds, in list order
RECURSIVE BuildCards(_)
BuildCards(bs) ==
    IF bs = <<>> THEN <<>> ELSE Head(bs).cards \o BuildCards(Tail(bs))

\* (mutant) without a capturer the table and the builds are cleared all the same
CollectClearsWithoutCapturer(g) ==
    IF g.last_capturer = None THEN [g EXCEPT !.table = <<>>, !.builds = <<>>]
    ELSE LET g1 == ExtendCaptured(g, g.last_capturer, g.table)
             g2 == [g1 EXCEPT !.table = <<>>]
             g3 == ExtendCaptured(g2, g.last_capturer, BuildCards(g2.builds))
         IN  [g3 EXCEPT !.builds = <<>>]

\* (mutant) the sweep goes to the active player's pile
CollectToActivePlayer(g) ==
    IF g.last_capturer = None THEN g
    ELSE LET g1 == ExtendCaptured(g, g.active_player, g.table)
             g2 == [g1 EXCEPT !.table = <<>>]
             g3 == ExtendCaptured(g2, g.active_player, BuildCards(g2.builds))
         IN  [g3 EXCEPT !.builds = <<>>]

\* (mutant) self.table.clear() is missing
CollectKeepsTable(g) ==
    IF g.last_capturer = None THEN g
    ELSE LET g1 == ExtendCaptured(g, g.last_capturer, g.table)
             g3 == ExtendCaptured(g1, g.last_capturer, BuildCards(g1.builds))
         IN  [g3 EXCEPT !.builds = <<>>]

\* Game.collect_remaining_table
collect_remaining_table(g) ==
    IF g.last_capturer = None THEN g
    ELSE LET g1 == ExtendCaptured(g, g.last_capturer, g.table)
             g2 == [g1 EXCEPT !.table = <<>>]
             g3 == ExtendCaptured(g2, g.last_capturer, BuildCards(g2.builds))
         IN  [g3 EXCEPT !.builds = <<>>]

\* Game.is_over
is_over(g) ==
    (\A p \in PlayerIndices(g) : g.players[p].hand = <<>>) /\ g.stock = <<>>

\* -------------------------------------------------------------- the machine
NoAction == [kind |-> "none"]

Call(op, player_index, action, raised, before) ==
    [op |-> op, player_index |-> player_index, action |-> action, raised |-> raised,
     before |-> before]

\* the steal_build calls made in a row, after one more apply_action
StealRun(run, g, action) ==
    IF action.kind = "steal_build"
    THEN LET entry == [steal_from |-> action.steal_from,
                       pile |-> g.players[action.steal_from].captured]
         IN  IF run = <<>> THEN <<entry>> ELSE <<run[Len(run)], entry>>
    ELSE <<>>

\* the state variables become the fields of g
Becomes(g) ==
    /\ player_count' = g.player_count
    /\ players' = g.players
    /\ table' = g.table
    /\ builds' = g.builds
    /\ stock' = g.stock
    /\ last_capturer' = g.last_capturer
    /\ active_player' = g.active_player

\* Game(player_count, rng): the state after construction, for some shuffle
Init ==
    \E pc \in {2, 3} : \E seed \in Seeds(pc) :
        LET s == Setup(pc, Shuffle(Deck(pc), seed)) IN
        /\ rng = seed
        /\ scores = <<>>
        /\ player_count = pc
        /\ players = s.players
        /\ table = s.table
        /\ builds = <<>>
        /\ stock = s.stock
        /\ last_capturer = None
        /\ active_player = 0
        /\ last_call = Call("init", None, NoAction, "none", Game)
        /\ deals = 0
        /\ steal_run = <<>>
        /\ sweeps = 0

\* apply_action(active_player, action) with one of legal_moves(active_player)
ApplyAction ==
    LET moves == legal_moves(Game, active_player) IN
    \E i \in 1..Len(moves) :
        LET r == apply_action(Game, active_player, moves[i]) IN
        /\ Becomes(r.game)
        /\ last_call' = Call("apply_action", active_player, moves[i], r.raised, Game)
        /\ deals' = deals
        /\ steal_run' = StealRun(steal_run, Game, moves[i])
        /\ sweeps' = sweeps
        /\ rng' = rng
        /\ scores' = scores

\* advance_turn()
AdvanceTurn ==
    LET g == advance_turn(Game) IN
    /\ Becomes(g)
    /\ last_call' = Call("advance_turn", None, NoAction, "none", Game)
    /\ deals' = IF g.stock # stock THEN deals + 1 ELSE deals
    /\ steal_run' = steal_run
    /\ sweeps' = sweeps
    /\ rng' = rng
    /\ scores' = scores

\* collect_remaining_table(), called once the game is over (and again on each
\* re-render of the finished game)
CollectRemainingTable ==
    /\ is_over(Game)
    /\ sweeps < MaxSweeps
    /\ Becomes(collect_remaining_table(Game))
    /\ last_call' = Call("collect_remaining_table", None, NoAction, "none", Game)
    /\ deals' = deals
    /\ steal_run' = steal_run
    /\ sweeps' = sweeps + 1
    /\ rng' = rng
    /\ scores' = scores

\* The calls of the engine's public surface, in any order. The loops of the
\* callers (simulate_game, ConsoleUI.run, the web page: apply_action followed
\* by advance_turn, advance_turn alone on an empty move list, the sweep once
\* the game is over) are among these behaviours.
Next == ApplyAction \/ AdvanceTurn \/ CollectRemainingTable

Spec == Init /\ [][Next]_vars

\* ----------------------------------------------------------- the driver loop
\* simulate_game, at "while not game.is_over()": after construction or after
\* the advance_turn that ends an iteration
AtLoopHead == last_call.op \in {"init", "advance_turn"}

\* action = game.rng.choice(moves); game.apply_action(game.active_player, action)
Play ==
    /\ AtLoopHead
    /\ ~is_over(Game)
    /\ ApplyAction

\* game.advance_turn() after apply_action
EndTurn ==
    /\ last_call.op = "apply_action"
    /\ AdvanceTurn

\* if not moves: game.advance_turn(); continue
Pass ==
    /\ AtLoopHead
    /\ ~is_over(Game)
    /\ legal_moves(Game, active_player) = <<>>
    /\ AdvanceTurn

\* the loop is left; game.collect_remaining_table()
Finish ==
    /\ AtLoopHead
    /\ CollectRemainingTable

simulate_game == Play \/ EndTurn \/ Pass \/ Finish

\* the loop keeps running: a step that can be taken is taken
SpecSimulate == Init /\ [][simulate_game]_vars /\ WF_vars(simulate_game)

\* ---------------------------------------------------------------- scoring
\* Values of a suit: range(1, 11)
CardValues == 10

\* the deck of _setup before the shuffle, 40 cards
ScoringDeck ==
    [i \in 1..(Len(SUITS) * CardValues) |->
        Card(((i - 1) % CardValues) + 1, SUITS[((i - 1) \div CardValues) + 1])]

\* (mutant) five spades already earn the two points
ScoreFiveSpadesAsMajority(g) ==
    [i \in 1..g.player_count |->
        LET pile         == g.players[i - 1].captured
            aces         == Len(SelectSeq(pile, LAMBDA card : card.value = 1))
            two_spades   == Len(SelectSeq(pile, LAMBDA card : card.value = 2 /\ card.suit = "S"))
            ten_diamonds == Len(SelectSeq(pile, LAMBDA card : card.value = 10 /\ card.suit = "D"))
            spades       == Len(SelectSeq(pile, LAMBDA card : card.suit = "S"))
            spade_points == IF spades >= 5 THEN 2 ELSE 0
            total_cards_bonus == IF Len(pile) >= 21 THEN 1 ELSE 0
        IN  aces + two_spades + ten_diamonds + spade_points + total_cards_bonus]

\* Game.score(): the list of the players' scores
score(g) ==
    [i \in 1..g.player_count |->
        LET pile         == g.players[i - 1].captured
            aces         == Len(SelectSeq(pile, LAMBDA card : card.value = 1))
            two_spades   == Len(SelectSeq(pile, LAMBDA card : card.value = 2 /\ card.suit = "S"))
            ten_diamonds == Len(SelectSeq(pile, LAMBDA card : card.value = 10 /\ card.suit = "D"))
            spades       == Len(SelectSeq(pile, LAMBDA card : card.suit = "S"))
            spade_points == IF spades >= 6 THEN 2 ELSE IF spades = 5 THEN 1 ELSE 0
            total_cards_bonus == IF Len(pile) >= 21 THEN 1 ELSE 0
        IN  aces + two_spades + ten_diamonds + spade_points + total_cards_bonus]

\* Orders of the 40 cards the piles are cut from: every stride-th card of the
\* deck, cyclically, from card first + 1 (the strides are prime to 40).
Strides == {1, 3, 7, 9}

Spread(stride, first) ==
    [i \in 1..Len(ScoringDeck) |->
        ScoringDeck[((first + (i - 1) * stride) % Len(ScoringDeck)) + 1]]

\* a finished, swept game of pc players whose piles are cards[1..a],
\* cards[a+1..b] and, with 3 players, cards[b+1..]
FinishedGame(pc, cards, a, b) ==
    LET piles == <<SubSeq(cards, 1, a), SubSeq(cards, a + 1, b),
                   SubSeq(cards, b + 1, Len(cards))>>
    IN  [player_count  |-> pc,
         players       |-> [p \in 0..(pc - 1) |-> Player(<<>>, piles[p + 1])],
         table         |-> <<>>,
         builds        |-> <<>>,
         stock         |-> <<>>,
         last_capturer |-> CHOOSE p \in 0..(pc - 1) :
                               /\ piles[p + 1] # <<>>
                               /\ \A q \in 0..(p - 1) : piles[q + 1] = <<>>,
         active_player |-> 0]

\* the games score() is examined on: finished and swept, all 40 cards captured
\* (the first pile is any cut, with 3 players the other two halve the rest)
InitScore ==
    \E pc \in {2, 3} : \E stride \in Strides : \E first \in 0..(Len(ScoringDeck) - 1) :
    \E a \in 0..Len(ScoringDeck) :
        LET rest == Len(ScoringDeck) - a
            b    == IF pc = 2 THEN a + rest ELSE a + (rest \div 2)
            g    == FinishedGame(pc, Spread(stride, first), a, b)
        IN
        /\ player_count = g.player_count
        /\ players = g.players
        /\ table = g.table
        /\ builds = g.builds
        /\ stock = g.stock
        /\ last_capturer = g.last_capturer
        /\ active_player = g.active_player
        /\ last_call = Call("collect_remaining_table", None, NoAction, "none", g)
        /\ deals = IF pc = 2 THEN 1 ELSE 0
        /\ steal_run = <<>>
        /\ sweeps = MaxSweeps
        /\ rng = 0
        /\ scores = <<>>

\* scores = game.score() of a finished game
Score ==
    /\ is_over(Game)
    /\ scores' = score(Game)
    /\ Becomes(Game)
    /\ last_call' = Call("score", None, NoAction, "none", Game)
    /\ deals' = deals
    /\ steal_run' = steal_run
    /\ sweeps' = sweeps
    /\ rng' = rng

SpecScore == InitScore /\ [][Score]_vars

\* ------------------------------------------------------------ the deal alone
\* the Game that Game(player_count, random.Random(seed)) constructs
NewGame(pc, seed) ==
    LET s == Setup(pc, Shuffle(Deck(pc), seed)) IN
    [player_count |-> pc, players |-> s.players, table |-> s.table,
     builds |-> <<>>, stock |-> s.stock, last_capturer |-> None,
     active_player |-> 0]

\* a game constructed from any of the examined shuffles
InitDeal ==
    \E pc \in {2, 3} : \E seed \in DealSeeds(pc) :
        LET g == NewGame(pc, seed) IN
        /\ rng = seed
        /\ scores = <<>>
        /\ player_count = g.player_count
        /\ players = g.players
        /\ table = g.table
        /\ builds = g.builds
        /\ stock = g.stock
        /\ last_capturer = g.last_capturer
        /\ active_player = g.active_player
        /\ last_call = Call("init", None, NoAction, "none", g)
        /\ deals = 0
        /\ steal_run = <<>>
        /\ sweeps = 0

\* reset_game(player_count, seed): the session's game is replaced by a new one
ResetGame ==
    \E pc \in {2, 3} : \E seed \in Seeds(pc) :
        LET g == NewGame(pc, seed) IN
        /\ rng' = seed
        /\ scores' = <<>>
        /\ Becomes(g)
        /\ last_call' = Call("init", None, NoAction, "none", g)
        /\ deals' = 0
        /\ steal_run' = <<>>
        /\ sweeps' = 0

SpecDeal == InitDeal /\ [][ResetGame]_vars

\* ================================================================== claims
\* the list without its element at the 0-based index i
Without(list, i) ==
    [k \in 1..(Len(list) - 1) |-> IF k <= i THEN list[k] ELSE list[k + 1]]

\* every card of the game, place after place
AllCards ==
    ConcatRange([p \in 0..(player_count - 1) |->
                    players[p].hand \o players[p].captured], 0, player_count - 1)
    \o table
    \o ConcatRange([b \in 1..Len(builds) |-> builds[b].cards], 1, Len(builds))
    \o stock

\* number of places of the list that hold the card c
Copies(list, c) == Cardinality({k \in 1..Len(list) : list[k] = c})

\* C1 -- Deck conservation: in every state reached from construction by
\* legal apply_action calls of the active player, advance_turn and the final
\* collect_remaining_table, the hands, the loose table, the builds, the
\* captured piles and the stock together hold every card of the deck exactly
\* once.
C1_DeckConservation ==
    LET all == AllCards IN
    /\ Len(all) = DeckSize(player_count)
    /\ \A c \in Elems(Deck(player_count)) : Copies(all, c) = 1

\* a finished game after the sweep, in which a steal, a build and a second
\* deal took place and a pile was swept into
C1_Witness ==
    /\ last_call.op = "collect_remaining_table"
    /\ last_capturer # None
    /\ deals = 1
    /\ last_call.before.builds # <<>>
    /\ last_call.before.table # <<>>

\* C2 -- Legal-move soundness: in every reachable state, for every player p,
\* every action of legal_moves(p) is applied by apply_action(p, a) without
\* raising; and no apply_action call made so far has raised.
C2_LegalMoveSoundness ==
    /\ last_call.raised = "none"
    /\ \A p \in PlayerIndices(Game) :
          LET moves == legal_moves(Game, p) IN
          \A i \in 1..Len(moves) :
              apply_action(Game, p, moves[i]).raised = "none"

\* a state reached by a legal steal in which every kind of action is offered
\* to some player
C2_Witness ==
    /\ last_call.op = "apply_action"
    /\ last_call.action.kind = "steal_build"
    /\ \A kind \in {"throw", "capture", "capture_build", "build", "steal_build"} :
          \E p \in PlayerIndices(Game) :
              \E a \in Elems(legal_moves(Game, p)) : a.kind = kind

\* ---- actions a caller may pass that legal_moves did not produce
\* candidate indices for a list: one before its first slot to one past its last
Indices(list) == (0 - 1)..Len(list)

\* candidate totals of a build
Totals == 1..(2 * MaxValue)

\* the actions tried on player p in the current state: every variant with
\* every candidate index, and one of an unrecognized kind
Candidates(p) ==
    LET hs == Indices(players[p].hand)
        ts == Indices(table)
        bs == Indices(builds)
        os == (0 - 1)..player_count
    IN  {Throw(h) : h \in hs}
        \cup {Capture(h, t) : h \in hs, t \in ts}
        \cup {CaptureBuild(h, b) : h \in hs, b \in bs}
        \cup {BuildAction(h, t, total) : h \in hs, t \in ts, total \in Totals}
        \cup {StealBuild(t, total, o) : t \in ts, total \in Totals, o \in os}
        \cup {[kind |-> "pass"]}

\* i is a slot of the list (0 <= i < len)
IsSlot(list, i) == 0 <= i /\ i < Len(list)

\* the action names a slot or a player the current state does not have, or is
\* of an unrecognized kind
OutOfRange(p, a) ==
    CASE a.kind = "throw" -> ~IsSlot(players[p].hand, a.hand_index)
      [] a.kind \in {"capture", "build"} ->
            ~IsSlot(players[p].hand, a.hand_index) \/ ~IsSlot(table, a.table_index)
      [] a.kind = "capture_build" ->
            ~IsSlot(players[p].hand, a.hand_index) \/ ~IsSlot(builds, a.build_index)
      [] a.kind = "steal_build" ->
            ~IsSlot(table, a.table_index) \/ a.steal_from \notin PlayerIndices(Game)
      [] OTHER -> TRUE

\* the call failed and left the game as it was
Rejected(r) == r.raised # "none" /\ r.game = Game

\* C3 -- All-or-nothing apply: apply_action with an action whose hand_index,
\* table_index, build_index or steal_from is out of range for the current
\* state, or whose kind is unrecognized, fails with an error and leaves every
\* part of the game state as it was.
C3_AllOrNothingApply ==
    \A p \in PlayerIndices(Game) : \A a \in Candidates(p) :
        OutOfRange(p, a) => Rejected(apply_action(Game, p, a))

\* C4 -- Illegal-action rejection: apply_action(p, a) with an action that is
\* not a member of legal_moves(p) fails with an error instead of changing the
\* state.
C4_IllegalActionRejection ==
    \A p \in PlayerIndices(Game) : \A a \in Candidates(p) :
        a \notin Elems(legal_moves(Game, p)) => Rejected(apply_action(Game, p, a))

\* ---- shorthands for the last call
Before == last_call.before

Applied(kind) == last_call.op = "apply_action" /\ last_call.action.kind = kind

Swept == last_call.op = "collect_remaining_table"

Advanced == last_call.op = "advance_turn"

Hands(g) == [p \in PlayerIndices(g) |-> g.players[p].hand]

Piles(g) == [p \in PlayerIndices(g) |-> g.players[p].captured]

\* C5 (as claimed) -- Sweep with no capturer: if last_capturer is unset, then
\* after collect_remaining_table the loose table and the builds are empty and
\* no captured pile has received a card.
C5_SweepClearsWithoutCapturer ==
    (Swept /\ Before.last_capturer = None) =>
        /\ table = <<>>
        /\ builds = <<>>
        /\ Piles(Game) = Piles(Before)

\* C5 (amended) -- Sweep with no capturer: if last_capturer is unset,
\* collect_remaining_table changes nothing: the loose table and the builds
\* keep their cards and no captured pile receives a card.
C5_SweepWithoutCapturerIsNoOp ==
    (Swept /\ Before.last_capturer = None) => Game = Before

\* a sweep of a finished game without any capture: the cards stay on the table
C5_Witness ==
    /\ Swept
    /\ Before.last_capturer = None
    /\ table # <<>>
    /\ builds # <<>>

\* C6 -- Sweep attribution: if last_capturer is player P when
\* collect_remaining_table is called, then afterwards P's pile is its previous
\* content followed by the previous loose table cards and the cards of every
\* previous build, the table and the builds are empty, and every other pile
\* and all hands are unchanged.
C6_SweepAttribution ==
    (Swept /\ Before.last_capturer # None) =>
        LET P == Before.last_capturer
            build_cards ==
                ConcatRange([b \in 1..Len(Before.builds) |-> Before.builds[b].cards],
                            1, Len(Before.builds))
        IN  /\ players[P].captured =
                   Before.players[P].captured \o Before.table \o build_cards
            /\ table = <<>>
            /\ builds = <<>>
            /\ \A p \in PlayerIndices(Game) \ {P} :
                   players[p].captured = Before.players[p].captured
            /\ Hands(Game) = Hands(Before)

\* a sweep of loose cards and of a build into the pile of a last capturer who
\* is not the active player
C6_Witness ==
    /\ Swept
    /\ Before.last_capturer # None
    /\ Before.last_capturer # Before.active_player
    /\ Before.table # <<>>
    /\ Before.builds # <<>>
    /\ Before.players[Before.last_capturer].captured # <<>>

\* C7 -- Sweep idempotence: collect_remaining_table changes nothing when
\* last_capturer is unset or when table and builds are already empty; a
\* second call in a row leaves the state of the first call, and on every
\* finished game sweeping twice gives the same game as sweeping once.
C7_SweepIdempotence ==
    /\ (Swept /\ (\/ Before.last_capturer = None
                  \/ (Before.table = <<>> /\ Before.builds = <<>>)))
          => Game = Before
    /\ (Swept /\ sweeps >= 2) => Game = Before
    /\ is_over(Game) =>
          collect_remaining_table(collect_remaining_table(Game))
              = collect_remaining_table(Game)

\* the second sweep in a row of a finished game that has a last capturer
C7_Witness ==
    /\ Swept
    /\ sweeps = 2
    /\ last_capturer # None
    /\ players[last_capturer].captured # <<>>
    /\ table = <<>>
    /\ builds = <<>>

\* C8 -- Second deal: in a 2-player match the game is not over when all
\* first-round hands are empty (the stock still holds its two deals); the
\* second deal is made by the advance_turn that finds every hand empty and the
\* stock non-empty, and by no other call: each player receives HandSize2 cards
\* of the stock in player order and the stock becomes empty; it has been made
\* exactly once when the match is over, never more than once, and never in a
\* 3-player match.
C8_SecondDeal ==
    LET empty_handed(g) == \A p \in PlayerIndices(g) : g.players[p].hand = <<>>
        due == /\ Before.player_count = 2
               /\ empty_handed(Before)
               /\ Before.stock # <<>>
    IN  /\ (player_count = 2 /\ deals = 0) =>
               /\ Len(stock) = 2 * HandSize2
               /\ ~is_over(Game)
        /\ deals <= 1
        /\ player_count = 3 => deals = 0
        /\ (player_count = 2 /\ is_over(Game)) => deals = 1
        /\ (Advanced /\ due) =>
               /\ deals = 1
               /\ players[0].hand = SubSeq(Before.stock, 1, HandSize2)
               /\ players[1].hand = SubSeq(Before.stock, HandSize2 + 1, 2 * HandSize2)
               /\ stock = <<>>
               /\ Piles(Game) = Piles(Before)
        /\ (last_call.op # "init" /\ ~(Advanced /\ due)) =>
               /\ stock = Before.stock
               /\ \A p \in PlayerIndices(Game) :
                      Len(players[p].hand) <= Len(Before.players[p].hand)

\* the advance_turn that made the second deal, after a first round with a
\* capture
C8_Witness ==
    /\ Advanced
    /\ player_count = 2
    /\ deals = 1
    /\ Before.stock # <<>>
    /\ stock = <<>>
    /\ last_capturer # None
    /\ Len(players[0].hand) = HandSize2

\* C9 -- Capture ordering: after a capture the acting player's pile is its
\* previous content followed by the hand card then the table card; after a
\* capture_build it is its previous content followed by the hand card then
\* the build's cards in stored order; the hand card and the captured table
\* card or build are removed from hand and table or builds.
C9_CaptureOrdering ==
    LET p    == last_call.player_index
        a    == last_call.action
        hand == Before.players[p].hand
        pile == Before.players[p].captured
    IN  /\ Applied("capture") =>
               /\ players[p].captured =
                      pile \o <<hand[a.hand_index + 1], Before.table[a.table_index + 1]>>
               /\ players[p].hand = Without(hand, a.hand_index)
               /\ table = Without(Before.table, a.table_index)
               /\ builds = Before.builds
        /\ Applied("capture_build") =>
               /\ players[p].captured =
                      pile \o <<hand[a.hand_index + 1]>>
                           \o Before.builds[a.build_index + 1].cards
               /\ players[p].hand = Without(hand, a.hand_index)
               /\ builds = Without(Before.builds, a.build_index)
               /\ table = Before.table

\* a capture_build, by a player who had captured before, of a build that was
\* not the only one, with a hand card that was not the last of the hand
C9_Witness ==
    /\ Applied("capture_build")
    /\ Before.players[last_call.player_index].captured # <<>>
    /\ Len(Before.builds) >= 2
    /\ last_call.action.hand_index + 1 < Len(Before.players[last_call.player_index].hand)

\* a capture of a table card that was not the last one on the table
C9_CaptureWitness ==
    /\ Applied("capture")
    /\ last_call.action.table_index + 1 < Len(Before.table)
    /\ Before.players[last_call.player_index].captured # <<>>

\* C10 -- Steal semantics: a steal_build removes exactly the last element of
\* the named opponent's pile (the earlier elements keep their order, a
\* one-card pile becomes empty) and the named loose table card, and appends
\* one build made of the stolen card followed by the table card; two steals
\* in a row from the same opponent remove two different cards, the most
\* recent first.
C10_StealSemantics ==
    /\ Applied("steal_build") =>
          LET a    == last_call.action
              o    == a.steal_from
              pile == Before.players[o].captured
          IN  /\ pile # <<>>
              /\ Len(players[o].captured) = Len(pile) - 1
              /\ \A k \in 1..(Len(pile) - 1) : players[o].captured[k] = pile[k]
              /\ table = Without(Before.table, a.table_index)
              /\ builds = Before.builds \o
                     <<[cards |-> <<pile[Len(pile)], Before.table[a.table_index + 1]>>,
                        total |-> a.target_total]>>
              /\ \A p \in PlayerIndices(Game) \ {o} :
                     players[p].captured = Before.players[p].captured
              /\ Hands(Game) = Hands(Before)
    /\ (Len(steal_run) = 2 /\ steal_run[1].steal_from = steal_run[2].steal_from) =>
          LET first  == steal_run[1].pile
              second == steal_run[2].pile
          IN  /\ Len(first) >= 2
              /\ second = SubSeq(first, 1, Len(first) - 1)
              /\ first[Len(first)] # second[Len(second)]
              /\ second[Len(second)] = first[Len(first) - 1]

\* the second of two steals in a row from the same opponent, which empties a
\* pile that held one card
C10_Witness ==
    /\ Applied("steal_build")
    /\ Len(steal_run) = 2
    /\ steal_run[1].steal_from = steal_run[2].steal_from
    /\ Len(Before.players[last_call.action.steal_from].captured) = 1
    /\ players[last_call.action.steal_from].captured = <<>>

\* C11 -- 3-player opening exchange: for every shuffle, a constructed
\* 3-player game has HandSize3 cards in every hand, exactly one card on the
\* table and an empty stock; if the 3 of hearts was dealt into a player's
\* hand, the table's card is the 3 of hearts and that player's hand holds the
\* dealt starter card instead (the other hands are as dealt); if the 3 of
\* hearts was the starter itself, table and hands are as dealt.
C11_OpeningExchange ==
    (last_call.op = "init" /\ player_count = 3) =>
        LET deck     == Shuffle(Deck(3), rng)
            dealt(p) == SubSeq(deck, p * HandSize3 + 1, (p + 1) * HandSize3)
            starter  == deck[3 * HandSize3 + 1]
            three    == Card(3, "H")
        IN  /\ \A p \in 0..2 : Len(players[p].hand) = HandSize3
            /\ Len(table) = 1
            /\ stock = <<>>
            /\ \A p \in 0..2 :
                   IF three \in Elems(dealt(p))
                   THEN /\ table = <<three>>
                        /\ starter \in Elems(players[p].hand)
                        /\ three \notin Elems(players[p].hand)
                        /\ Elems(players[p].hand) = (Elems(dealt(p)) \ {three}) \cup {starter}
                   ELSE players[p].hand = dealt(p)
            /\ starter = three => table = <<starter>>
            /\ (\A p \in 0..2 : three \notin Elems(dealt(p))) => table = <<starter>>

\* a 3-player game in which the last player was dealt the 3 of hearts and now
\* holds the starter card
C11_Witness ==
    /\ last_call.op = "init"
    /\ player_count = 3
    /\ table = <<Card(3, "H")>>
    /\ Shuffle(Deck(3), rng)[3 * HandSize3 + 1] \in Elems(players[2].hand)

\* a 3-player game in which the 3 of hearts was the starter itself
C11_StarterWitness ==
    /\ last_call.op = "init"
    /\ player_count = 3
    /\ IsThreeOfHearts(Shuffle(Deck(3), rng)[3 * HandSize3 + 1])

\* C12 -- Scoring: after score(), the list has one entry per player, and a
\* player's entry is (number of aces in the pile) + (1 if the 2 of spades is
\* in the pile) + (1 if the 10 of diamonds is in the pile) + (2 if the pile
\* has at least 6 spades, 1 if exactly 5, else 0) + (1 if the pile has at
\* least 21 cards), a function of that pile alone; the game is as it was
\* before the call.
PilePoints(pile) ==
    LET cards  == Elems(pile)
        spades == Cardinality({c \in cards : c.suit = "S"})
    IN  Cardinality(cards \cap {Card(1, suit) : suit \in Elems(SUITS)})
        + (IF Card(2, "S") \in cards THEN 1 ELSE 0)
        + (IF Card(10, "D") \in cards THEN 1 ELSE 0)
        + (CASE spades > 5 -> 2 [] spades = 5 -> 1 [] OTHER -> 0)
        + (IF Len(pile) > 20 THEN 1 ELSE 0)

C12_Scoring ==
    last_call.op = "score" =>
        /\ Len(scores) = player_count
        /\ \A p \in PlayerIndices(Game) : scores[p + 1] = PilePoints(players[p].captured)
        /\ Game = Before

\* scored: a pile of exactly 21 cards with exactly 5 spades, next to a pile
\* with the 2 of spades and the 10 of diamonds
C12_Witness ==
    /\ last_call.op = "score"
    /\ \E p, q \in PlayerIndices(Game) :
           /\ Len(players[p].captured) = 21
           /\ Cardinality({c \in Elems(players[p].captured) : c.suit = "S"}) = 5
           /\ Card(2, "S") \in Elems(players[q].captured)
           /\ Card(10, "D") \in Elems(players[q].captured)
           /\ scores[q + 1] > 2

\* C14 -- last_capturer tracking: last_capturer is unset or a player index;
\* it is unset at construction; after a capture or a capture_build it is the
\* acting player's index; throw, build, steal_build, advance_turn and
\* collect_remaining_table leave it as it was; once set it is not unset.
C14_LastCapturerTracking ==
    /\ last_capturer \in {None} \cup PlayerIndices(Game)
    /\ last_call.op = "init" => last_capturer = None
    /\ (Applied("capture") \/ Applied("capture_build")) =>
           last_capturer = last_call.player_index
    /\ (Applied("throw") \/ Applied("build") \/ Applied("steal_build")
            \/ Advanced \/ Swept) =>
           last_capturer = Before.last_capturer
    /\ (last_call.op # "init" /\ Before.last_capturer # None) => last_capturer # None

\* a capture_build by a player who was not the last capturer before it
C14_Witness ==
    /\ Applied("capture_build")
    /\ Before.last_capturer # None
    /\ Before.last_capturer # last_call.player_index
    /\ last_capturer = last_call.player_index

\* C15 -- Steal offers: for every player p, the steal_build actions of
\* legal_moves(p) are exactly the steal_build(t, T, o) where o is another
\* player with a non-empty captured pile, t is a loose table slot, T is the
\* value of the last card of o's pile plus the value of table card t, and p's
\* hand holds a card of value T; none names p's own pile or an empty pile.
StealTotal(o, t) ==
    players[o].captured[Len(players[o].captured)].value + table[t + 1].value

StealOffers(p) ==
    {a \in Elems(legal_moves(Game, p)) : a.kind = "steal_build"}

C15_StealOffers ==
    \A p \in PlayerIndices(Game) :
        /\ StealOffers(p) =
               UNION {{StealBuild(t, StealTotal(o, t), o) :
                          t \in {u \in 0..(Len(table) - 1) :
                                    StealTotal(o, u) \in
                                        {c.value : c \in Elems(players[p].hand)}}} :
                      o \in {q \in PlayerIndices(Game) \ {p} : players[q].captured # <<>>}}
        /\ \A a \in StealOffers(p) :
               a.steal_from # p /\ players[a.steal_from].captured # <<>>

\* a steal is offered to a player whose own pile would qualify as well
C15_Witness ==
    \E p \in PlayerIndices(Game) :
        /\ StealOffers(p) # {}
        /\ players[p].captured # <<>>
        /\ \E t \in 0..(Len(table) - 1) :
               StealTotal(p, t) \in {c.value : c \in Elems(players[p].hand)}

\* C16 -- Build atomicity: throw, capture and advance_turn leave the builds as
\* they were; build and steal_build append one build and leave the existing
\* ones as they were; capture_build removes exactly the build it names, whose
\* cards all go, in order, onto the capturer's pile; the sweep leaves the
\* builds as they were (no capturer) or removes them all, every build's cards
\* going together, in order, onto the last capturer's pile.
IsSegment(part, list) ==
    \E i \in 0..(Len(list) - Len(part)) : SubSeq(list, i + 1, i + Len(part)) = part

C16_BuildAtomicity ==
    LET old == Before.builds IN
    /\ (Applied("throw") \/ Applied("capture") \/ Advanced) => builds = old
    /\ (Applied("build") \/ Applied("steal_build")) =>
           /\ Len(builds) = Len(old) + 1
           /\ SubSeq(builds, 1, Len(old)) = old
    /\ Applied("capture_build") =>
           LET taken == old[last_call.action.build_index + 1]
               pile  == players[last_call.player_index].captured
           IN  /\ builds = Without(old, last_call.action.build_index)
               /\ SubSeq(pile, Len(pile) - Len(taken.cards) + 1, Len(pile)) = taken.cards
    /\ Swept =>
           IF Before.last_capturer = None
           THEN builds = old
           ELSE /\ builds = <<>>
                /\ \A b \in 1..Len(old) :
                       IsSegment(old[b].cards, players[last_capturer].captured)

\* a capture_build that takes one build and leaves another on the table
C16_Witness ==
    /\ Applied("capture_build")
    /\ builds # <<>>
    /\ last_call.action.build_index < Len(builds)

\* C17 -- Turn sequencing: active_player is always an index into players;
\* after advance_turn it is (active_player before + 1) mod player_count, also
\* when that player has no legal action; apply_action and
\* collect_remaining_table leave it as it was.
C17_TurnSequencing ==
    /\ active_player \in 0..(player_count - 1)
    /\ Advanced => active_player = (Before.active_player + 1) % Before.player_count
    /\ (last_call.op = "apply_action" \/ Swept) => active_player = Before.active_player

\* the turn has passed to a player without any legal action while another
\* player still holds cards
C17_Witness ==
    /\ Advanced
    /\ legal_moves(Game, active_player) = <<>>
    /\ legal_moves(Before, active_player) = <<>>
    /\ \E p \in PlayerIndices(Game) : players[p].hand # <<>>

\* C18 -- Build well-formedness: every build on the table holds exactly two
\* cards, its total is the sum of the values of the two, and its total is at
\* most the highest card value (10 in the source, MaxValue here).
C18_BuildWellFormed ==
    \A b \in 1..Len(builds) :
        /\ Len(builds[b].cards) = 2
        /\ builds[b].total = builds[b].cards[1].value + builds[b].cards[2].value
        /\ builds[b].total <= MaxValue

\* a build made by steal_build lies next to an older build
C18_Witness ==
    /\ Applied("steal_build")
    /\ Len(builds) >= 2
    /\ Before.builds # <<>>

\* C19 -- Pass condition: for every player p, legal_moves(p) is empty exactly
\* when p's hand is empty; a non-empty hand yields a throw for each hand
\* card, an empty hand yields no action, steal_build included.
C19_PassCondition ==
    \A p \in PlayerIndices(Game) :
        LET moves == legal_moves(Game, p) IN
        /\ moves = <<>> <=> players[p].hand = <<>>
        /\ \A i \in 0..(Len(players[p].hand) - 1) : Throw(i) \in Elems(moves)

\* a player with an empty hand has no action although a pile of an opponent
\* and the table hold cards a steal could combine
C19_Witness ==
    \E p \in PlayerIndices(Game) :
        /\ players[p].hand = <<>>
        /\ legal_moves(Game, p) = <<>>
        /\ table # <<>>
        /\ \E o \in PlayerIndices(Game) \ {p} :
               players[o].captured # <<>> /\ players[o].hand # <<>>

\* C20 -- Termination: the driver loop (pass with advance_turn when
\* legal_moves is empty, otherwise apply one legal move, any, then
\* advance_turn) reaches a state where is_over holds, for 2 and for 3
\* players; no step leads from a state where is_over holds to one where it
\* does not; and where is_over holds legal_moves is empty for every player.
C20_Termination ==
    /\ <>is_over(Game)
    /\ [][is_over(Game) => is_over(Game)']_vars
    /\ [](is_over(Game) => \A p \in PlayerIndices(Game) : legal_moves(Game, p) = <<>>)

\* the loop has ended and the table is swept, with 2 players after the second
\* deal and with 3 players
C20_Witness ==
    /\ Swept
    /\ is_over(Game)
    /\ player_count = 2 => deals = 1
    /\ \E p \in PlayerIndices(Game) : Len(players[p].captured) > 2

====
